---- MODULE Spec2Model ----
(***************************************************************************)
(* Model of the Famly check-in/out integration                             *)
(* (custom_components/ha_famly_checkinout): the FamlyApi client            *)
(* (authenticate, get_child_status), the tolerant calendar parser nested   *)
(* in get_child_status, and the polling cycle async_update_data.           *)
(*                                                                         *)
(* JSON scalars are strings; three sentinels stand for the values that are *)
(* not strings: NONE (key absent or null), NUM (a truthy non-string such   *)
(* as a number) and the empty string "" (a falsy string).                  *)
(***************************************************************************)
EXTENDS Integers, Sequences, FiniteSets, TLC

\* ------------------------------------------------------------------ bounds
MaxEvents == 3
MaxCycles == 2
MaxTokens == 4

\* --------------------------------------------------------------- constants
STATE_AT_CHILDCARE == "At childcare"
STATE_OUTSIDE_CHILDCARE == "Outside childcare"

\* get_child_status returning None, and a fault leaving a function
NoResult == "<None>"
RAISE == "<raise>"

NONE == "<none>"
NUM == "<number>"

Truthy(v) == v \notin {NONE, ""}
IsStr(v) == v \notin {NONE, NUM}

\* ------------------------------------------------------- string primitives
\* str.lower(), str.upper() and the substring test, tabulated on the strings
\* the model uses.
Lower(s) ==
  CASE s = "Famly.Daycare:ChildCheckin" -> "famly.daycare:childcheckin"
    [] s = "Famly.Daycare:ChildCheckout" -> "famly.daycare:childcheckout"
    [] s = "CHECK_IN" -> "check_in"
    [] s = "CHECK_OUT" -> "check_out"
    [] s = "Check_Out" -> "check_out"
    [] s = "NOTE" -> "note"
    [] s = "Famly.Daycare:Note" -> "famly.daycare:note"
    [] s = "Ola ble sjekket inn" -> "ola ble sjekket inn"
    [] s = "Ola ble sjekket ut" -> "ola ble sjekket ut"
    [] s = "Checked in by parent" -> "checked in by parent"
    [] s = "Checked out by parent" -> "checked out by parent"
    [] s = "Nap time" -> "nap time"
    [] OTHER -> s

Upper(s) ==
  CASE s = "check_in" -> "CHECK_IN"
    [] s = "check_out" -> "CHECK_OUT"
    [] s = "Check_Out" -> "CHECK_OUT"
    [] s = "Famly.Daycare:ChildCheckin" -> "FAMLY.DAYCARE:CHILDCHECKIN"
    [] s = "Famly.Daycare:ChildCheckout" -> "FAMLY.DAYCARE:CHILDCHECKOUT"
    [] OTHER -> s

\* sub in s, for lower-case s
Contains(s, sub) ==
  CASE sub = "checkin" -> s \in {"famly.daycare:childcheckin"}
    [] sub = "check_in" -> s \in {"check_in"}
    [] sub = "checkout" -> s \in {"famly.daycare:childcheckout"}
    [] sub = "check_out" -> s \in {"check_out"}
    [] sub = "sjekket ut" -> s \in {"ola ble sjekket ut"}
    [] sub = "checked out" -> s \in {"checked out by parent"}
    [] sub = "sjekket inn" -> s \in {"ola ble sjekket inn"}
    [] sub = "checked in" -> s \in {"checked in by parent"}
    [] OTHER -> FALSE

\* ------------------------------------------------------------- timestamps
\* A datetime is [aware, t]: t is the instant in minutes (UTC for an aware
\* value, wall clock for a naive one).  NoTime is Python's None.
NoTime == [aware |-> FALSE, t |-> -1]

\* ts.replace("Z", "+00:00")
ReplaceZ(ts) ==
  CASE ts = "2024-05-01T08:00:00Z" -> "2024-05-01T08:00:00+00:00"
    [] ts = "2024-05-01T15:30:00Z" -> "2024-05-01T15:30:00+00:00"
    [] OTHER -> ts

\* datetime.fromisoformat; ValueError is its failure on a malformed string
ValueError == [aware |-> FALSE, t |-> -2]

FromIsoFormat(s) ==
  CASE s = "2024-05-01T08:00:00+00:00" -> [aware |-> TRUE, t |-> 480]
    [] s = "2024-05-01T15:30:00+00:00" -> [aware |-> TRUE, t |-> 930]
    [] s = "2024-05-01T14:00:00+02:00" -> [aware |-> TRUE, t |-> 720]
    [] s = "2024-05-01T12:00:00" -> [aware |-> FALSE, t |-> 720]
    [] OTHER -> ValueError

parse_iso(ts) ==
  IF ~Truthy(ts) THEN NoTime
  ELSE IF ~IsStr(ts) THEN NoTime
  ELSE LET r == FromIsoFormat(ReplaceZ(ts))
       IN IF r = ValueError THEN NoTime ELSE r

\* ------------------------------------------------------------------ events
\* An attendance event as the parser sees it.  rec is isinstance(ev, dict);
\* embed and originator are "absent", "null" (or any other non-record value)
\* or "obj"; the remaining fields are JSON scalars.
BaseEvent ==
  [rec |-> TRUE, embed |-> "absent", embed_type |-> NONE,
   originator |-> "absent", origin_type |-> NONE, origin_typename |-> NONE,
   origin_occurredAt |-> NONE, origin_timestamp |-> NONE,
   type |-> NONE, eventType |-> NONE, title |-> NONE,
   from |-> NONE, occurredAt |-> NONE, timestamp |-> NONE]

\* first truthy value of an "a or b or ..." chain, the last one otherwise
RECURSIVE OrChain(_)
OrChain(vs) ==
  IF Len(vs) = 1 THEN Head(vs)
  ELSE IF Truthy(Head(vs)) THEN Head(vs) ELSE OrChain(Tail(vs))

normalize_type(t) ==
  IF ~Truthy(t) THEN NONE
  ELSE IF ~IsStr(t) THEN RAISE
  ELSE LET tl == Lower(t)
       IN IF Contains(tl, "checkin") \/ Contains(tl, "check_in") THEN "checkin"
          ELSE IF Contains(tl, "checkout") \/ Contains(tl, "check_out") THEN "checkout"
          ELSE NONE

\* kind from the title phrases, consulted when no type field gave a kind
TitleKind(ev, k) ==
  IF IsStr(ev.title)
  THEN LET title == Lower(ev.title)
       IN IF Contains(title, "sjekket ut") \/ Contains(title, "checked out") THEN "checkout"
          ELSE IF Contains(title, "sjekket inn") \/ Contains(title, "checked in") THEN "checkin"
          ELSE k
  ELSE k

\* "checkin", "checkout", NONE, or RAISE (AttributeError)
event_kind(ev) ==
  IF ev.rec /\ ev.embed = "null" THEN RAISE
  ELSE
    LET et == IF ev.rec /\ ev.embed = "obj" THEN ev.embed_type ELSE NONE
        u == IF IsStr(et) THEN Upper(et) ELSE NONE
    IN IF u = "CHECK_OUT" THEN "checkout"
       ELSE IF u = "CHECK_IN" THEN "checkin"
       ELSE IF ev.rec /\ ev.originator = "null" THEN RAISE
       ELSE IF ~ev.rec THEN RAISE
       ELSE
         LET ot == IF ev.originator = "obj" THEN ev.origin_type ELSE NONE
             on == IF ev.originator = "obj" THEN ev.origin_typename ELSE NONE
             t == OrChain(<<ot, on, ev.type, ev.eventType>>)
             k == normalize_type(t)
         IN IF k = RAISE THEN RAISE
            ELSE IF k = NONE THEN TitleKind(ev, k)
            ELSE k

\* AttributeError leaving event_timestamp (origin.get on a non-record)
AttributeError == [aware |-> FALSE, t |-> -3]

\* called only for events whose kind was determined, hence for records
event_timestamp(ev) ==
  IF ev.originator = "null" /\ ~Truthy(ev.from) THEN AttributeError
  ELSE
    LET oo == IF ev.originator = "obj" THEN ev.origin_occurredAt ELSE NONE
        ots == IF ev.originator = "obj" THEN ev.origin_timestamp ELSE NONE
        ts == IF ev.originator = "null" THEN ev.from
              ELSE OrChain(<<ev.from, oo, ev.occurredAt, ots, ev.timestamp>>)
    IN parse_iso(ts)

\* ------------------------------------------------------- calendar response
\* The decoded body.  top: "falsy" (null, {}, 0, ""), "scalar" (a truthy
\* value that is neither a record nor a list), "dict" (items holds the one
\* record) or "list" (items holds its elements).  An item is a record
\* (kind "dict") with an events value and a days value, a nested list
\* (kind "list", elements in sub) or anything else (kind "scalar").  An
\* events or days value is "absent", "other" (present, not a list) or "list".
\* A day bucket is a record with an events value, or (rec = FALSE) not a record.
EvField(shape, evs) == [shape |-> shape, list |-> evs]
NoEvents == EvField("absent", <<>>)
Bucket(rec, evf) == [rec |-> rec, events |-> evf]
DaysField(shape, buckets) == [shape |-> shape, list |-> buckets]
NoDays == DaysField("absent", <<>>)
Container(evf, days) == [kind |-> "dict", events |-> evf, days |-> days, sub |-> <<>>]
ListItem(sub) == [kind |-> "list", events |-> NoEvents, days |-> NoDays, sub |-> sub]
ScalarItem == [kind |-> "scalar", events |-> NoEvents, days |-> NoDays, sub |-> <<>>]
Data(top, items) == [top |-> top, items |-> items]

\* "not data"
Falsy(data) == data.top = "falsy" \/ (data.top = "list" /\ data.items = <<>>)

\* collect_events keeps the candidates in cands and raised records an
\* AttributeError (day.get on a bucket that is not a record)
\* a parser that reads the first day bucket only
CollectFirstDay(buckets, acc) ==
  IF buckets = <<>> THEN acc
  ELSE IF ~Head(buckets).rec THEN [acc EXCEPT !.raised = TRUE]
  ELSE IF Head(buckets).events.shape = "list"
  THEN [acc EXCEPT !.cands = @ \o Head(buckets).events.list]
  ELSE acc

RECURSIVE CollectDays(_, _)
CollectDays(buckets, acc) ==
  IF acc.raised \/ buckets = <<>> THEN acc
  ELSE LET day == Head(buckets)
       IN IF ~day.rec THEN [acc EXCEPT !.raised = TRUE]
          ELSE CollectDays(Tail(buckets),
                 IF day.events.shape = "list"
                 THEN [acc EXCEPT !.cands = @ \o day.events.list]
                 ELSE acc)

CollectDict(c, acc) ==
  LET a1 == IF c.events.shape = "list"
            THEN [acc EXCEPT !.cands = @ \o c.events.list] ELSE acc
  IN IF c.days.shape = "list" THEN CollectDays(c.days.list, a1) ELSE a1

RECURSIVE CollectItems(_, _)
CollectItems(items, acc) ==
  IF acc.raised \/ items = <<>> THEN acc
  ELSE LET c == Head(items)
           a1 == IF c.kind = "dict" THEN CollectDict(c, acc)
                 ELSE IF c.kind = "list" THEN CollectItems(c.sub, acc)
                 ELSE acc
       IN CollectItems(Tail(items), a1)

collect_events(data) ==
  LET acc0 == [cands |-> <<>>, raised |-> FALSE]
  IN IF data.top = "dict" THEN CollectDict(data.items[1], acc0)
     ELSE IF data.top = "list" THEN CollectItems(data.items, acc0)
     ELSE acc0

\* a reduction in which an event without a timestamp always overrides the
\* kind found so far
ReduceStepOverride(st, ev) ==
  LET kind == event_kind(ev)
  IN IF kind = RAISE THEN [st EXCEPT !.raised = TRUE]
     ELSE IF kind = NONE THEN st
     ELSE
       LET dt == event_timestamp(ev)
       IN IF dt = AttributeError THEN [st EXCEPT !.raised = TRUE]
          ELSE IF dt = NoTime THEN [st EXCEPT !.latest_kind = kind]
          ELSE IF st.latest_time = NoTime
          THEN [st EXCEPT !.latest_time = dt, !.latest_kind = kind]
          ELSE IF dt.aware # st.latest_time.aware THEN [st EXCEPT !.raised = TRUE]
          ELSE IF dt.t > st.latest_time.t
          THEN [st EXCEPT !.latest_time = dt, !.latest_kind = kind]
          ELSE st

\* ------------------------------------------------------------- reduction
\* One iteration of "for ev in candidates" on the loop state
\* [latest_time, latest_kind, raised].
ReduceStep(st, ev) ==
  LET kind == event_kind(ev)
  IN IF kind = RAISE THEN [st EXCEPT !.raised = TRUE]
     ELSE IF kind = NONE THEN st
     ELSE
       LET dt == event_timestamp(ev)
       IN IF dt = AttributeError THEN [st EXCEPT !.raised = TRUE]
          ELSE IF dt = NoTime
          THEN IF st.latest_time = NoTime THEN [st EXCEPT !.latest_kind = kind] ELSE st
          ELSE IF st.latest_time = NoTime
          THEN [st EXCEPT !.latest_time = dt, !.latest_kind = kind]
          \* dt > latest_time: TypeError between an aware and a naive value
          ELSE IF dt.aware # st.latest_time.aware THEN [st EXCEPT !.raised = TRUE]
          ELSE IF dt.t > st.latest_time.t
          THEN [st EXCEPT !.latest_time = dt, !.latest_kind = kind]
          ELSE st

RECURSIVE Reduce(_, _)
Reduce(cands, st) ==
  IF st.raised \/ cands = <<>> THEN st
  ELSE Reduce(Tail(cands), ReduceStep(st, Head(cands)))

\* Lines 113-222 of get_child_status on a decoded body: a presence state,
\* or RAISE when an exception leaves the block (the enclosing handler then
\* turns it into no-result).
ParseCalendar(data) ==
  IF Falsy(data) THEN STATE_OUTSIDE_CHILDCARE
  ELSE
    LET col == collect_events(data)
    IN IF col.raised THEN RAISE
       ELSE
         LET st == Reduce(col.cands,
                     [latest_time |-> NoTime, latest_kind |-> NONE, raised |-> FALSE])
         IN IF st.raised THEN RAISE
            ELSE IF st.latest_kind = "checkin" THEN STATE_AT_CHILDCARE
            ELSE STATE_OUTSIDE_CHILDCARE

\* What get_child_status returns once a 2xx answer has been decoded to data
\* (lines 113-226): the handler at lines 224-226 turns a fault into no-result.
StatusFromData(data) ==
  LET r == ParseCalendar(data)
  IN IF r = RAISE THEN NoResult ELSE r

\* ----------------------------------------------------------- sample inputs
CheckInEvent(ts) == [BaseEvent EXCEPT !.embed = "obj", !.embed_type = "CHECK_IN", !.from = ts]
CheckOutEvent(ts) ==
  [BaseEvent EXCEPT !.originator = "obj", !.origin_type = "Famly.Daycare:ChildCheckout",
                    !.from = ts]
OtherEvent(ts) ==
  [BaseEvent EXCEPT !.embed = "obj", !.embed_type = "NOTE", !.title = "Nap time", !.from = ts]
NonRecordEvent == [BaseEvent EXCEPT !.rec = FALSE]
NullEmbedEvent == [BaseEvent EXCEPT !.embed = "null", !.title = "Checked in by parent"]

TimeValues ==
  {NONE, "garbage", "2024-05-01T08:00:00Z", "2024-05-01T15:30:00Z",
   "2024-05-01T14:00:00+02:00", "2024-05-01T12:00:00"}

WellFormedEvents ==
  {CheckInEvent(ts) : ts \in TimeValues \ {"2024-05-01T14:00:00+02:00"}}
    \cup {CheckOutEvent(ts) : ts \in TimeValues \ {"garbage"}}
    \cup {OtherEvent(ts) : ts \in {NONE, "2024-05-01T15:30:00Z"}}

ListEvents == WellFormedEvents \cup {NonRecordEvent, NullEmbedEvent}

\* single events that vary the fields the kind and the timestamp are read from
FieldEvents ==
  {[BaseEvent EXCEPT !.embed = e, !.embed_type = et, !.originator = o,
                     !.origin_type = ot, !.type = ty, !.title = ti,
                     !.from = f, !.origin_occurredAt = oo] :
     e \in {"absent", "null", "obj"}, et \in {NONE, NUM, "check_in", "Check_Out", "NOTE"},
     o \in {"absent", "null", "obj"},
     ot \in {NONE, "Famly.Daycare:ChildCheckin", "Famly.Daycare:ChildCheckout"},
     ty \in {NONE, NUM, "Famly.Daycare:Note"},
     ti \in {NONE, "Ola ble sjekket inn", "Checked out by parent"},
     f \in {NONE, NUM, "2024-05-01T08:00:00Z"},
     oo \in {NONE, "2024-05-01T14:00:00+02:00"}}

RECURSIVE SeqsUpTo(_, _)
SeqsUpTo(S, n) ==
  IF n = 0 THEN {<<>>}
  ELSE LET shorter == SeqsUpTo(S, n - 1)
       IN shorter \cup {Append(q, x) : q \in {r \in shorter : Len(r) = n - 1}, x \in S}

EventLists == SeqsUpTo(ListEvents, MaxEvents) \cup {<<e>> : e \in FieldEvents}

\* How a response carries a list of events: the name of the layout and the
\* index at which the list is cut in two.
Form(name, at) == [name |-> name, at |-> at]
NestingNames == {"days", "split", "both", "toplist", "nestedlist"}

FormsFor(evs) ==
  {Form("flat", 0)}
    \cup {Form("split", k) : k \in 0..Len(evs)}
    \cup {Form(n, (Len(evs) + 1) \div 2) : n \in {"both", "toplist"}}
    \cup {Form(n, 0) : n \in {"days", "nestedlist"}}
    \cup (IF Len(evs) <= 2
          THEN {Form(n, 0) : n \in {"bad_bucket", "events_other", "days_other", "scalar_item"}}
          ELSE {})
    \cup (IF evs = <<>> THEN {Form(n, 0) : n \in {"scalar", "falsy", "empty_list"}} ELSE {})

Package(evs, form) ==
  LET k == form.at
      a == SubSeq(evs, 1, k)
      b == SubSeq(evs, k + 1, Len(evs))
      all == EvField("list", evs)
      n == form.name
  IN CASE n = "flat" -> Data("dict", <<Container(all, NoDays)>>)
       [] n = "days" ->
            Data("dict", <<Container(NoEvents, DaysField("list", <<Bucket(TRUE, all)>>))>>)
       [] n = "split" ->
            Data("dict", <<Container(NoEvents,
              DaysField("list", <<Bucket(TRUE, EvField("list", a)), Bucket(TRUE, EvField("list", b))>>))>>)
       [] n = "both" ->
            Data("dict", <<Container(EvField("list", a),
              DaysField("list", <<Bucket(TRUE, EvField("list", b))>>))>>)
       [] n = "toplist" ->
            Data("list", <<Container(EvField("list", a), NoDays),
                           Container(NoEvents, DaysField("list", <<Bucket(TRUE, EvField("list", b))>>))>>)
       [] n = "nestedlist" ->
            Data("list", <<ListItem(<<Container(NoEvents, DaysField("list", <<Bucket(TRUE, all)>>))>>)>>)
       [] n = "bad_bucket" ->
            Data("dict", <<Container(NoEvents,
              DaysField("list", <<Bucket(TRUE, all), Bucket(FALSE, NoEvents)>>))>>)
       [] n = "events_other" ->
            Data("dict", <<Container(EvField("other", <<>>),
              DaysField("list", <<Bucket(TRUE, all), Bucket(TRUE, EvField("other", <<>>))>>))>>)
       [] n = "days_other" ->
            Data("dict", <<Container(all, DaysField("other", <<>>))>>)
       [] n = "scalar_item" ->
            Data("list", <<ScalarItem, Container(all, NoDays)>>)
       [] n = "scalar" -> Data("scalar", <<>>)
       [] n = "empty_list" -> Data("list", <<>>)
       [] OTHER -> Data("falsy", <<>>)

\* ------------------------------------------------------------ HTTP answers
\* transport: "ok", "client_error" (an aiohttp.ClientError such as a refused
\* connection) or "timeout" (asyncio.TimeoutError, which is not a
\* ClientError).  body: "nonjson" (json() raises ContentTypeError, a
\* ClientError), "badjson" (json() raises a ValueError), "empty" (json()
\* returns None) or "json".
\* response.raise_for_status() raises ClientResponseError
RaisesForStatus(status) == status >= 400

\* The authentication answer.  shape: what the decoded body is ("obj" a
\* record, "other" a list or scalar); data/me/awp: the levels
\* data.me.authenticateWithPassword, each "absent", "null" or "obj";
\* token: the accessToken value, "absent" (or null), "empty" or "token".
AuthReply(transport, status, body, shape, dataL, me, awp, token) ==
  [transport |-> transport, status |-> status, body |-> body, shape |-> shape,
   data |-> dataL, me |-> me, awp |-> awp, token |-> token]

AuthOk == AuthReply("ok", 200, "json", "obj", "obj", "obj", "obj", "token")

AuthReplies ==
  {AuthReply(t, 0, "empty", "obj", "absent", "absent", "absent", "absent") :
     t \in {"client_error", "timeout"}}
    \cup {AuthReply("ok", st, "empty", "obj", "absent", "absent", "absent", "absent") :
           st \in {401, 500}}
    \cup {AuthReply("ok", st, b, "obj", "absent", "absent", "absent", "absent") :
           st \in {200, 304}, b \in {"nonjson", "badjson", "empty"}}
    \cup {AuthReply("ok", 200, "json", "other", "absent", "absent", "absent", "absent")}
    \cup {AuthReply("ok", 200, "json", "obj", d, "absent", "absent", "absent") :
           d \in {"absent", "null"}}
    \cup {AuthReply("ok", 200, "json", "obj", "obj", m, "absent", "absent") :
           m \in {"absent", "null"}}
    \cup {AuthReply("ok", 200, "json", "obj", "obj", "obj", a, "absent") :
           a \in {"absent", "null"}}
    \cup {AuthReply("ok", 200, "json", "obj", "obj", "obj", "obj", k) :
           k \in {"absent", "empty", "token"}}
    \cup {AuthReply("ok", 304, "json", "obj", "obj", "obj", "obj", "token")}

\* Which exception a json() call raises, if any
JsonError(body) ==
  CASE body = "nonjson" -> "ClientError"
    [] body = "badjson" -> "ValueError"
    [] OTHER -> "none"

\* data.get("data", {}).get("me", {}).get("authenticateWithPassword", {})
\* then auth.get("accessToken"): "token", "falsy", or RAISE (AttributeError
\* on a level that is not a record)
AuthLookup(r) ==
  IF r.body = "empty" \/ r.shape # "obj" THEN RAISE
  ELSE IF r.data = "null" THEN RAISE
  ELSE IF r.data = "absent" THEN "falsy"
  ELSE IF r.me = "null" THEN RAISE
  ELSE IF r.me = "absent" THEN "falsy"
  ELSE IF r.awp = "null" THEN RAISE
  ELSE IF r.awp = "absent" THEN "falsy"
  ELSE IF r.token = "token" THEN "token" ELSE "falsy"

\* Which exceptions the handler of authenticate absorbs (line 64)
AuthCatches(exc) == exc = "ClientError"

\* The exception reaching the handler of authenticate, "none" if none does
AuthException(r) ==
  IF r.transport = "client_error" THEN "ClientError"
  ELSE IF r.transport = "timeout" THEN "TimeoutError"
  ELSE IF RaisesForStatus(r.status) THEN "ClientError"
  ELSE IF JsonError(r.body) # "none" THEN JsonError(r.body)
  ELSE IF AuthLookup(r) = RAISE THEN "AttributeError"
  ELSE "none"

\* authenticate on an answer: "true", "false" or RAISE
authenticate(r) ==
  LET exc == AuthException(r)
  IN IF exc # "none" THEN (IF AuthCatches(exc) THEN "false" ELSE RAISE)
     ELSE IF AuthLookup(r) = "token" THEN "true" ELSE "false"

\* The calendar answer
CalReply(transport, status, body, data) ==
  [transport |-> transport, status |-> status, body |-> body, data |-> data]

SampleData ==
  {Package(<<CheckInEvent("2024-05-01T08:00:00Z")>>, Form("flat", 0)),
   Package(<<CheckInEvent("2024-05-01T08:00:00Z"), CheckOutEvent("2024-05-01T15:30:00Z")>>,
           Form("days", 0)),
   Package(<<NonRecordEvent>>, Form("flat", 0)),
   Package(<<>>, Form("falsy", 0))}

NoData == Data("falsy", <<>>)

CalReplies ==
  {CalReply(t, 0, "empty", NoData) : t \in {"client_error", "timeout"}}
    \cup {CalReply("ok", st, "empty", NoData) : st \in {401, 500}}
    \cup {CalReply("ok", st, b, NoData) : st \in {200, 304}, b \in {"nonjson", "badjson", "empty"}}
    \cup {CalReply("ok", st, "json", d) : st \in {200, 304}, d \in SampleData}

\* a client that re-authenticates on every error status
NeedsReauthOnError(r) == r.transport = "ok" /\ r.status >= 400

\* line 101: the answer that starts the re-authentication
NeedsReauth(r) == r.transport = "ok" /\ r.status = 401

\* Lines 107-222 (and 110-222) on an answer that is not handled as a 401:
\* raise_for_status, json(), then the parser; every exception ends in the
\* handler at 224-226.
StatusFromReply(r) ==
  IF r.transport # "ok" THEN NoResult
  ELSE IF RaisesForStatus(r.status) THEN NoResult
  ELSE IF JsonError(r.body) # "none" THEN NoResult
  ELSE IF r.body = "empty" THEN StatusFromData(NoData)
  ELSE StatusFromData(r.data)

\* The sidebar answer: items is "none" (no child entry), "children" (child
\* entries with id and title) or "broken" (a child entry lacking id or title)
SidebarReplies ==
  {[transport |-> t, status |-> 0, body |-> "empty", items |-> "none"] :
     t \in {"client_error", "timeout"}}
    \cup {[transport |-> "ok", status |-> 500, body |-> "empty", items |-> "none"]}
    \cup {[transport |-> "ok", status |-> 200, body |-> b, items |-> "none"] :
           b \in {"nonjson", "empty"}}
    \cup {[transport |-> "ok", status |-> 200, body |-> "json", items |-> i] :
           i \in {"none", "children", "broken"}}

\* ------------------------------------------------------------------- state
\* entry.data[CONF_CHILDREN], the children selected at setup
Children == {"child_a", "child_b"}
NoToken == 0

VARIABLES
  access_token,         \* FamlyApi._access_token (NoToken is None)
  issued,               \* tokens the provider has handed out so far
  cycle,                \* polling cycles started
  pc,                   \* per child: where its get_child_status task stands
  hdr,                  \* per child: the token in the headers of its query
  result,               \* per child: what its task returned (NONE while running)
  log,                  \* per child: the requests and answers of its current call
  last_auth,            \* the authenticate call the latest step completed, if any
  returned,             \* outcome of the latest async_update_data
  data,                 \* coordinator.data, the latest aggregate delivered
  last_update_success,  \* coordinator.last_update_success
  flow,                 \* where the config flow stands
  flow_token,           \* _access_token of the config flow's own FamlyApi
  own,                  \* per child: the token its latest authenticate stored
  provider,             \* the provider: how it answers, which tokens it rejects
  p_events,             \* parser run: the events of the response
  p_form,               \* parser run: how the response nests them
  p_data,               \* parser run: the decoded body
  p_result              \* parser run: the returned status (NONE before the call)

clientVars == <<access_token, issued>>
cycleVars == <<cycle, pc, hdr, result, log, own, returned, data, last_update_success>>
parseVars == <<p_events, p_form, p_data, p_result>>
flowVars == <<flow, flow_token>>
vars == <<access_token, issued, cycle, pc, hdr, result, log, last_auth, returned,
          data, last_update_success, flow, flow_token, own, provider,
          p_events, p_form, p_data, p_result>>

\* The provider.  In mode "any" it may give any answer to any request.  In
\* mode "honest" it accepts every authentication, rejects with 401 the
\* tokens up to expired, and answers every other query for child c with
\* 200 and the body cal[c].
AnyProvider == [mode |-> "any", expired |-> 0, cal |-> [c \in Children |-> NoData]]

HonestAnswer(c, tok) ==
  IF tok <= provider.expired THEN CalReply("ok", 401, "empty", NoData)
  ELSE CalReply("ok", 200, "json", provider.cal[c])

AuthOffered(r) == provider.mode = "honest" => r = AuthOk
CalOffered(c, tok, r) == provider.mode = "honest" => r = HonestAnswer(c, tok)

LogEntry(op, status, ok) == [op |-> op, status |-> status, ok |-> ok]
AuthCall == LogEntry("auth", 0, NONE)
AuthReturn(ok) == LogEntry("auth_ret", 0, ok)
Query == LogEntry("query", 0, NONE)
Reply(r) == LogEntry("reply", r.status, NONE)

NoAuth == [reply |-> AuthOk, ret |-> NONE, stored |-> NoToken]

ClientInit ==
  /\ access_token = NoToken
  /\ issued = 0
  /\ cycle = 0
  /\ pc = [c \in Children |-> "idle"]
  /\ hdr = [c \in Children |-> NoToken]
  /\ result = [c \in Children |-> NONE]
  /\ log = [c \in Children |-> <<>>]
  /\ last_auth = NoAuth
  /\ returned = "none"
  /\ data = [c \in Children |-> NONE]
  /\ last_update_success = FALSE
  /\ flow = "user_form"
  /\ flow_token = NoToken
  /\ own = [c \in Children |-> NoToken]

ParseIdle ==
  /\ p_events = <<>>
  /\ p_form = Form("flat", 0)
  /\ p_data = Package(<<>>, Form("flat", 0))
  /\ p_result = NONE

Init == ClientInit /\ ParseIdle /\ provider = AnyProvider

\* ------------------------------------------------------------ authenticate
\* The provider hands out a fresh token with every successful
\* authentication, MaxTokens of them at most.
CanAnswer(r) == authenticate(r) = "true" => issued < MaxTokens

\* an authenticate that forgets the held token when it fails
TokenAfterClearing(held, r) == IF authenticate(r) = "true" THEN issued + 1 ELSE NoToken

\* What _access_token holds after an authenticate call that received r:
\* the token is stored on success only (line 62).
TokenAfter(held, r) == IF authenticate(r) = "true" THEN issued + 1 ELSE held

AuthRecord(r) ==
  [reply |-> r, ret |-> authenticate(r),
   stored |-> IF authenticate(r) = "true" THEN issued + 1 ELSE NoToken]

\* An authenticate call of the polling client returns on answer r
StoreToken(r) ==
  /\ access_token' = TokenAfter(access_token, r)
  /\ issued' = IF authenticate(r) = "true" THEN issued + 1 ELSE issued
  /\ last_auth' = AuthRecord(r)

\* get_children on a sidebar answer: NoResult, or the kind of list returned
get_children(held, r) ==
  IF held = NoToken THEN NoResult
  ELSE IF r.transport # "ok" THEN NoResult
  ELSE IF RaisesForStatus(r.status) THEN NoResult
  ELSE IF r.body # "json" THEN NoResult
  ELSE IF r.items = "broken" THEN NoResult
  ELSE IF r.items = "children" THEN "children" ELSE "empty"

\* config_flow.async_step_user with user input: a new FamlyApi, one
\* authenticate call and, when it succeeds, async_step_children, which
\* fetches the children with the token just stored.
async_step_user ==
  /\ flow = "user_form"
  /\ \E r \in AuthReplies, sb \in SidebarReplies :
       /\ CanAnswer(r)
       /\ flow_token' = TokenAfter(NoToken, r)
       /\ issued' = IF authenticate(r) = "true" THEN issued + 1 ELSE issued
       /\ last_auth' = AuthRecord(r)
       /\ flow' = CASE authenticate(r) = "false" -> "user_form"
                     [] authenticate(r) = RAISE -> RAISE
                     [] OTHER -> IF get_children(flow_token', sb) \in {NoResult, "empty"}
                                 THEN "abort" ELSE "children_form"
  /\ UNCHANGED <<access_token, cycleVars, parseVars, provider>>

\* config_flow.async_step_children with the user's selection: the entry is
\* created and the platforms are set up with a FamlyApi of their own.
async_step_children ==
  /\ flow = "children_form"
  /\ flow' = "created"
  /\ last_auth' = NoAuth
  /\ UNCHANGED <<access_token, issued, flow_token, cycleVars, parseVars, provider>>

\* -------------------------------------------------------- get_child_status
\* A task runs from one await to the next in one step.
Finish(c, value) ==
  /\ result' = [result EXCEPT ![c] = value]
  /\ pc' = [pc EXCEPT ![c] = "done"]

\* the headers of a query sent right after an authenticate call that
\* overlooks the token now held and keeps the one it had before
StaleHeader(old, held) == old

\* Lines 97 and 105: the headers of the query take the token held now
HeaderToken(old, held) == held

\* Lines 92-100 when the task is first scheduled: authenticate if no token
\* is held, otherwise send the calendar query with the held token.
Begin(c) ==
  /\ pc[c] = "start"
  /\ IF access_token = NoToken
     THEN /\ pc' = [pc EXCEPT ![c] = "auth0"]
          /\ log' = [log EXCEPT ![c] = Append(@, AuthCall)]
          /\ hdr' = hdr
     ELSE /\ pc' = [pc EXCEPT ![c] = "query1"]
          /\ hdr' = [hdr EXCEPT ![c] = HeaderToken(@, access_token)]
          /\ log' = [log EXCEPT ![c] = Append(@, Query)]
  /\ last_auth' = NoAuth
  /\ UNCHANGED <<clientVars, cycle, result, own, returned, data,
                 last_update_success, flowVars, parseVars, provider>>

\* Line 92: the initial authenticate returns; it is outside the try block,
\* so what it raises leaves get_child_status.  On success the token is
\* stored (line 62) and "return True" leaves the async-with block of line
\* 54 through an awaited __aexit__, where the event loop may run other
\* tasks before the caller goes on with line 95.
InitialAuthReply(c) ==
  /\ pc[c] = "auth0"
  /\ \E r \in AuthReplies :
       /\ AuthOffered(r)
       /\ CanAnswer(r)
       /\ StoreToken(r)
       /\ LET ret == authenticate(r)
          IN /\ log' = [log EXCEPT ![c] = Append(@, AuthReturn(ret))]
             /\ IF ret = "true"
                THEN /\ pc' = [pc EXCEPT ![c] = "auth0_ok"]
                     /\ own' = [own EXCEPT ![c] = access_token']
                     /\ result' = result
                ELSE /\ Finish(c, IF ret = "false" THEN NoResult ELSE RAISE)
                     /\ own' = own
  /\ UNCHANGED <<cycle, hdr, returned, data, last_update_success, flowVars,
                 parseVars, provider>>

\* Lines 95-100: the headers are built and the first query is sent.
SendQuery(c) ==
  /\ pc[c] = "auth0_ok"
  /\ pc' = [pc EXCEPT ![c] = "query1"]
  /\ hdr' = [hdr EXCEPT ![c] = HeaderToken(@, access_token)]
  /\ log' = [log EXCEPT ![c] = Append(@, Query)]
  /\ last_auth' = NoAuth
  /\ UNCHANGED <<clientVars, cycle, result, own, returned, data,
                 last_update_success, flowVars, parseVars, provider>>

\* Lines 100-111: the first calendar answer arrives.
CalendarReply(c) ==
  /\ pc[c] = "query1"
  /\ \E r \in CalReplies :
       /\ CalOffered(c, hdr[c], r)
       /\ IF NeedsReauth(r)
          THEN /\ pc' = [pc EXCEPT ![c] = "reauth"]
               /\ log' = [log EXCEPT ![c] = @ \o <<Reply(r), AuthCall>>]
               /\ result' = result
          ELSE /\ Finish(c, StatusFromReply(r))
               /\ log' = [log EXCEPT ![c] = Append(@, Reply(r))]
  /\ last_auth' = NoAuth
  /\ UNCHANGED <<clientVars, cycle, hdr, own, returned, data,
                 last_update_success, flowVars, parseVars, provider>>

\* Lines 103-104: the re-authentication returns; it is inside the try
\* block, so what it raises ends in the handler at 224-226.
ReauthReply(c) ==
  /\ pc[c] = "reauth"
  /\ \E r \in AuthReplies :
       /\ AuthOffered(r)
       /\ CanAnswer(r)
       /\ StoreToken(r)
       /\ LET ret == authenticate(r)
          IN /\ log' = [log EXCEPT ![c] = Append(@, AuthReturn(ret))]
             /\ IF ret = "true"
                THEN /\ pc' = [pc EXCEPT ![c] = "reauth_ok"]
                     /\ own' = [own EXCEPT ![c] = access_token']
                     /\ result' = result
                ELSE /\ Finish(c, NoResult)
                     /\ own' = own
  /\ UNCHANGED <<cycle, hdr, returned, data, last_update_success, flowVars,
                 parseVars, provider>>

\* Lines 105-106: the headers take the token held and the query is retried.
SendRetry(c) ==
  /\ pc[c] = "reauth_ok"
  /\ pc' = [pc EXCEPT ![c] = "query2"]
  /\ hdr' = [hdr EXCEPT ![c] = HeaderToken(@, access_token)]
  /\ log' = [log EXCEPT ![c] = Append(@, Query)]
  /\ last_auth' = NoAuth
  /\ UNCHANGED <<clientVars, cycle, result, own, returned, data,
                 last_update_success, flowVars, parseVars, provider>>

\* Lines 106-108: the answer to the retried query arrives.
RetryReply(c) ==
  /\ pc[c] = "query2"
  /\ \E r \in CalReplies :
       /\ CalOffered(c, hdr[c], r)
       /\ Finish(c, StatusFromReply(r))
       /\ log' = [log EXCEPT ![c] = Append(@, Reply(r))]
  /\ last_auth' = NoAuth
  /\ UNCHANGED <<clientVars, cycle, hdr, own, returned, data,
                 last_update_success, flowVars, parseVars, provider>>

\* -------------------------------------------------------- async_update_data
\* Lines 37-38: one task per selected child, gathered.
StartCycle ==
  /\ flow = "created"
  /\ returned # "pending"
  /\ \A c \in Children : pc[c] \in {"idle", "done"}
  /\ cycle < MaxCycles
  /\ cycle' = cycle + 1
  /\ pc' = [c \in Children |-> "start"]
  /\ result' = [c \in Children |-> NONE]
  /\ log' = [c \in Children |-> <<>>]
  /\ hdr' = [c \in Children |-> NoToken]
  /\ own' = [c \in Children |-> NoToken]
  /\ returned' = "pending"
  /\ last_auth' = NoAuth
  /\ UNCHANGED <<clientVars, data, last_update_success, flowVars, parseVars, provider>>

\* Lines 38-43: every task returned, the aggregate is built and the
\* coordinator stores it.
UpdateReturns ==
  /\ returned = "pending"
  /\ \A c \in Children : pc[c] = "done" /\ result[c] # RAISE
  /\ returned' = "dict"
  /\ data' = [c \in Children |-> result[c]]
  /\ last_update_success' = TRUE
  /\ last_auth' = NoAuth
  /\ UNCHANGED <<clientVars, cycle, pc, hdr, result, log, own, flowVars, parseVars, provider>>

\* Line 38: gather re-raises the first exception of a task; the update
\* method raises, the coordinator keeps its previous data and marks the
\* update as failed.  The other tasks run on.
UpdateRaises ==
  /\ returned = "pending"
  /\ \E c \in Children : pc[c] = "done" /\ result[c] = RAISE
  /\ returned' = RAISE
  /\ last_update_success' = FALSE
  /\ last_auth' = NoAuth
  /\ UNCHANGED <<clientVars, cycle, pc, hdr, result, log, own, data, flowVars, parseVars, provider>>

Next ==
  \/ async_step_user
  \/ async_step_children
  \/ StartCycle
  \/ \E c \in Children : Begin(c)
  \/ \E c \in Children : InitialAuthReply(c)
  \/ \E c \in Children : SendQuery(c)
  \/ \E c \in Children : CalendarReply(c)
  \/ \E c \in Children : ReauthReply(c)
  \/ \E c \in Children : SendRetry(c)
  \/ \E c \in Children : RetryReply(c)
  \/ UpdateReturns
  \/ UpdateRaises

Spec == Init /\ [][Next]_vars

\* -------------------------------------------------------------- parser run
\* The parser on every response of the sample: a client that holds a token
\* receives a 200 answer whose decoded body is p_data.
ParseInit ==
  /\ ClientInit
  /\ provider = AnyProvider
  /\ p_events \in EventLists
  /\ p_form \in FormsFor(p_events)
  /\ p_data = Package(p_events, p_form)
  /\ p_result = NONE

ParseResponse ==
  /\ p_result = NONE
  /\ p_result' = StatusFromReply(CalReply("ok", 200, "json", p_data))
  /\ UNCHANGED <<clientVars, cycleVars, last_auth, flowVars, provider, p_events, p_form, p_data>>

ParseNext == ParseResponse

SpecParse == ParseInit /\ [][ParseNext]_vars

\* --------------------------------------------- polling an honest provider
\* The entry exists and the polling client holds nothing or a token the
\* provider has expired; the provider answers every request honestly, with
\* one calendar body per child.
RaceProviders ==
  {[mode |-> "honest", expired |-> 1, cal |-> cal] : cal \in [Children -> SampleData]}

RaceInit ==
  /\ access_token \in {NoToken, 1}
  /\ issued = 1
  /\ cycle = 0
  /\ pc = [c \in Children |-> "idle"]
  /\ hdr = [c \in Children |-> NoToken]
  /\ result = [c \in Children |-> NONE]
  /\ log = [c \in Children |-> <<>>]
  /\ own = [c \in Children |-> NoToken]
  /\ last_auth = NoAuth
  /\ returned = "none"
  /\ data = [c \in Children |-> NONE]
  /\ last_update_success = FALSE
  /\ flow = "created"
  /\ flow_token = 1
  /\ provider \in RaceProviders
  /\ ParseIdle

\* Between two cycles the provider expires every token it has issued.
Expire ==
  /\ returned = "dict"
  /\ cycle < MaxCycles
  /\ provider.expired < issued
  /\ provider' = [provider EXCEPT !.expired = issued]
  /\ last_auth' = NoAuth
  /\ UNCHANGED <<clientVars, cycleVars, flowVars, parseVars>>

RaceNext ==
  \/ StartCycle
  \/ \E c \in Children : Begin(c)
  \/ \E c \in Children : InitialAuthReply(c)
  \/ \E c \in Children : SendQuery(c)
  \/ \E c \in Children : CalendarReply(c)
  \/ \E c \in Children : ReauthReply(c)
  \/ \E c \in Children : SendRetry(c)
  \/ \E c \in Children : RetryReply(c)
  \/ UpdateReturns
  \/ Expire

SpecRace == RaceInit /\ [][RaceNext]_vars

\* ================================================================== claims
PresenceStates == {STATE_AT_CHILDCARE, STATE_OUTSIDE_CHILDCARE}

\* C1: every get_child_status call that has ended returned "At childcare",
\* "Outside childcare" or no-result; no call ends by raising.
C1_NeverRaises ==
  \A c \in Children :
    pc[c] = "done" => result[c] \in PresenceStates \cup {NoResult}

\* ---- C3
Positions(l, op) == {i \in 1..Len(l) : l[i].op = op}
Queries(l) == Positions(l, "query")
FirstQuery(l) == CHOOSE i \in Queries(l) : \A j \in Queries(l) : i <= j
\* the authenticate calls made after the first calendar query
Reauths(l) == {i \in Positions(l, "auth") : \E q \in Queries(l) : q < i}
\* the answer to the query at position q, when it has arrived
Answered(l, q) == q < Len(l) /\ l[q + 1].op = "reply"
\* a (status) answer is a failure: transport errors carry status 0
Non2xx(status) == status < 200 \/ status > 299
ErrorStatus(status) == status = 0 \/ status >= 400

\* The retry rule of one call with log l and returned value res, for a
\* given reading of "failed answer".
RetryRule(l, ended, res, Failed(_)) ==
  /\ Cardinality(Queries(l)) <= 2
  /\ Cardinality(Reauths(l)) <= 1
  \* a re-authentication follows the 401 answer to the first query at once
  /\ \A i \in Reauths(l) :
       /\ l[i - 1].op = "reply" /\ l[i - 1].status = 401
       /\ i - 2 = FirstQuery(l)
  \* a second query follows that re-authentication, once it has succeeded
  /\ \A q \in Queries(l) :
       q # FirstQuery(l) =>
         /\ l[q - 1].op = "auth_ret" /\ l[q - 1].ok = "true"
         /\ q - 2 \in Reauths(l)
  \* a 401 on the first query is followed by one authenticate attempt and,
  \* if it succeeded, by one retried query (the call goes on to send it when
  \* the successful authenticate is the last thing it did)
  /\ \A q \in Queries(l) :
       (q = FirstQuery(l) /\ Answered(l, q) /\ l[q + 1].status = 401) =>
         /\ Cardinality(Reauths(l)) = 1
         /\ \A i \in Positions(l, "auth_ret") :
              (i > q /\ l[i].ok = "true") =>
                IF i = Len(l) THEN ~ended ELSE Cardinality(Queries(l)) = 2
         /\ \A i \in Positions(l, "auth_ret") :
              (i > q /\ l[i].ok # "true") => (ended /\ res = NoResult /\ i = Len(l))
  /\ \A q \in Queries(l) :
       (Answered(l, q) /\ Failed(l[q + 1].status)) =>
         \* a failed answer to the retried query ends the call with no-result
         /\ q # FirstQuery(l) => (ended /\ res = NoResult)
         \* so does a failed answer other than 401 to the first query, with
         \* no re-authentication and no second query
         /\ (q = FirstQuery(l) /\ l[q + 1].status # 401) =>
              (ended /\ res = NoResult /\ Reauths(l) = {} /\ Cardinality(Queries(l)) = 1)

\* C3 as stated: a failed answer is any answer that is not 2xx.
C3_RetryOnceNon2xx ==
  \A c \in Children : RetryRule(log[c], pc[c] = "done", result[c], Non2xx)

\* C3 amended: a failed answer is a transport error or an error status
\* (400 and above); within one get_child_status call a re-authentication
\* and a second calendar query happen only after a 401 answer to the first
\* query, exactly once each, and a failed answer to the retried query, or
\* a failed answer other than 401 to the first one, ends the call with
\* no-result.
C3_RetryOnce ==
  \A c \in Children : RetryRule(log[c], pc[c] = "done", result[c], ErrorStatus)

\* a call that got 401, re-authenticated, retried and obtained a state
C3_Witness ==
  \E c \in Children :
    /\ pc[c] = "done"
    /\ Cardinality(Queries(log[c])) = 2
    /\ Cardinality(Reauths(log[c])) = 1
    /\ result[c] = STATE_AT_CHILDCARE

\* C7: once the update method of a cycle has ended it has returned an
\* aggregate with one entry per child: the presence state of every child
\* whose query succeeded and no value for a child whose query failed.
C7_PartialFailure ==
  returned \notin {"none", "pending"} =>
    /\ returned = "dict"
    /\ \A c \in Children :
         /\ data[c] \in PresenceStates \cup {NoResult}
         /\ data[c] = result[c]

\* ---- C8
\* the answer carries a non-empty token at data.me.authenticateWithPassword
\* of a 2xx JSON body
DeliversToken(r) ==
  /\ r.transport = "ok" /\ r.status \in 200..299
  /\ r.body = "json" /\ r.shape = "obj"
  /\ r.data = "obj" /\ r.me = "obj" /\ r.awp = "obj" /\ r.token = "token"

\* C8: an authenticate call never raises: it returns true when a non-empty
\* token was received (and stored), false on every other answer.
C8_AuthReportsFailure ==
  last_auth.ret # NONE =>
    /\ last_auth.ret \in {"true", "false"}
    /\ last_auth.ret = "true" <=> DeliversToken(last_auth.reply)
    /\ last_auth.ret = "true" => last_auth.stored # NoToken

\* ---- claims about the parser, checked under SpecParse
Parsed == p_result # NONE
\* the layouts that carry every event of p_events in well-formed containers
CarriesEvents == p_form.name \in {"flat"} \cup NestingNames
StateOfKind(k) == IF k = "checkin" THEN STATE_AT_CHILDCARE ELSE STATE_OUTSIDE_CHILDCARE
Determinable(ev) == event_kind(ev) \in {"checkin", "checkout"}
\* the event is a record whose kind and timestamp are extracted without a fault
Readable(ev) ==
  /\ event_kind(ev) # RAISE
  /\ Determinable(ev) => event_timestamp(ev) # AttributeError
HasTime(ev) == Determinable(ev) /\ event_timestamp(ev).t >= 0
DetIdx(evs) == {i \in 1..Len(evs) : Determinable(evs[i])}
TimedIdx(evs) == {i \in 1..Len(evs) : HasTime(evs[i])}
AllReadable(evs) == \A i \in 1..Len(evs) : Readable(evs[i])
\* the result is the state of an event of I that no event of I is later than
LatestDecides(evs, I, res) ==
  \E i \in I :
    /\ \A j \in I : event_timestamp(evs[j]).t <= event_timestamp(evs[i]).t
    /\ res = StateOfKind(event_kind(evs[i]))

\* C2: when every event with a determinable kind carries a timestamp, the
\* result is the state of the event with the greatest timestamp (stated
\* here for responses whose events are all readable records).
C2_LatestWins ==
  (/\ Parsed /\ CarriesEvents /\ AllReadable(p_events)
   /\ DetIdx(p_events) # {}
   /\ DetIdx(p_events) = TimedIdx(p_events))
    => LatestDecides(p_events, DetIdx(p_events), p_result)

\* C4: a list whose kind-determinable events are all check-outs gives
\* "Outside childcare", one whose kind-determinable events are all
\* check-ins (and that has one) gives "At childcare", whatever the
\* timestamps (stated for responses whose events are all readable records).
C4_Homogeneous ==
  (Parsed /\ CarriesEvents /\ AllReadable(p_events)) =>
    /\ (\A i \in DetIdx(p_events) : event_kind(p_events[i]) = "checkout")
         => p_result = STATE_OUTSIDE_CHILDCARE
    /\ (/\ DetIdx(p_events) # {}
        /\ \A i \in DetIdx(p_events) : event_kind(p_events[i]) = "checkin")
         => p_result = STATE_AT_CHILDCARE

\* C5: the result is the one obtained for the list without the events
\* whose kind cannot be determined, and "Outside childcare" when no event
\* with a determinable kind remains (empty list and empty body included).
C5_UndeterminableIgnored ==
  (Parsed /\ p_form.name \in {"flat", "falsy", "empty_list"}) =>
    LET kept == SelectSeq(p_events, Determinable)
    IN /\ p_form.name = "flat" =>
            p_result = StatusFromData(Package(kept, Form("flat", 0)))
       /\ kept = <<>> => p_result = STATE_OUTSIDE_CHILDCARE

\* C6: a response that nests its events under days[].events[] (one or
\* several buckets, beside a flat list, or inside a top-level list)
\* resolves to the same result as the flat events[] list of the same events.
C6_NestingIrrelevant ==
  (Parsed /\ CarriesEvents) =>
    p_result = StatusFromData(Package(p_events, Form("flat", 0)))

\* events spread over two non-empty day buckets, the later bucket deciding
C6_Witness ==
  /\ Parsed
  /\ p_form.name = "split" /\ p_form.at > 0 /\ p_form.at < Len(p_events)
  /\ p_result = STATE_AT_CHILDCARE
  /\ StatusFromData(Package(SubSeq(p_events, 1, p_form.at), Form("flat", 0)))
       = STATE_OUTSIDE_CHILDCARE

\* C9: a 2xx answer with a decodable body always resolves to a presence
\* state, whatever the shape of the body.
C9_ParseNeverFails == Parsed => p_result \in PresenceStates

\* C10: if some kind-determinable event has a timestamp, the result is the
\* state of the greatest-timestamp event wherever the timestamp-less events
\* stand; otherwise a timestamp-less event decides (stated for responses
\* whose events are all readable records).
C10_TimestampLessLastResort ==
  (Parsed /\ CarriesEvents /\ AllReadable(p_events)) =>
    /\ TimedIdx(p_events) # {} => LatestDecides(p_events, TimedIdx(p_events), p_result)
    /\ (TimedIdx(p_events) = {} /\ DetIdx(p_events) # {}) =>
         \E i \in DetIdx(p_events) : p_result = StateOfKind(event_kind(p_events[i]))


\* ------------------------------------------------------------------- C11
\* the step in which the call for child c sends a calendar query
SendsQuery(c) == Cardinality(Queries(log'[c])) > Cardinality(Queries(log[c]))

\* the call for child c has made its initial authenticate and it has ended
\* with the outcome named by Ended (true, false or an exception)
InitialAuthEnded(c, Ended(_)) ==
  /\ Len(log[c]) >= 2
  /\ log[c][1].op = "auth"
  /\ log[c][2].op = "auth_ret"
  /\ Ended(log[c][2].ok)

NotSucceeded(ok) == ok # "true"
ReturnedFalse(ok) == ok = "false"

\* a call whose first act was to authenticate queries only after that
\* authenticate has succeeded; an initial authenticate that Fails ends the
\* call with no-result and without a query
AuthFirstRule(Fails(_)) ==
  \A c \in Children :
    /\ (log[c] # <<>> /\ log[c][1].op = "auth") =>
         \A q \in Queries(log[c]) :
           q > 2 /\ InitialAuthEnded(c, LAMBDA ok : ok = "true")
    /\ InitialAuthEnded(c, Fails) =>
         /\ pc[c] = "done"
         /\ result[c] = NoResult
         /\ Queries(log[c]) = {}

\* with no token held the first thing a call does is authenticate; a query
\* is sent with a token, the one held at that moment
QueryCarriesHeldToken ==
  \A c \in Children :
    /\ (pc[c] = "start" /\ pc'[c] # "start" /\ access_token = NoToken) =>
         log'[c] = <<AuthCall>>
    /\ SendsQuery(c) =>
         /\ access_token # NoToken
         /\ access_token' = access_token
         /\ hdr'[c] = access_token

\* C11: a get_child_status call that starts with no token held authenticates
\* before anything else; no calendar query is ever sent without a token,
\* every calendar query carries the token held at the moment it is sent,
\* and when the initial authentication fails (it does not deliver a token)
\* the call returns no-result and has sent no calendar query at all.
C11_AuthFirst ==
  [](AuthFirstRule(NotSucceeded)) /\ [][QueryCarriesHeldToken]_vars

\* the same rule when only an authenticate that returns false counts as
\* failed
C11_AuthFirstReturnedFalse ==
  [](AuthFirstRule(ReturnedFalse)) /\ [][QueryCarriesHeldToken]_vars


\* ------------------------------------------------------------------- C12
\* what the call for child c returns when it runs alone against the honest
\* provider: the status read from the child's calendar body, obtained with
\* the held token or, after a 401, with a fresh one
AloneResult(c) == StatusFromReply(CalReply("ok", 200, "json", provider.cal[c]))

\* the call for child c has sent its retried query
Retried(c) == Cardinality(Queries(log[c])) = 2

\* the calls of a cycle against the honest provider, where OwnToken says
\* which token the retried query of a call may carry, given the token the
\* call's own re-authentication stored
RaceRule(OwnToken(_, _)) ==
  \A c \in Children :
    /\ Cardinality(Reauths(log[c])) <= 1
    /\ Retried(c) => OwnToken(hdr[c], own[c])
    /\ pc[c] = "done" => result[c] = AloneResult(c)
    /\ returned = "dict" => access_token = issued

ExactlyOwn(carried, stored) == carried = stored

OwnOrNewer(carried, stored) ==
  /\ stored # NoToken
  /\ stored <= carried
  /\ carried <= issued

\* C12: the status queries of one cycle that race on an expired token do
\* not disturb each other: under every interleaving each query
\* re-authenticates at most once, retries with the token stored by its own
\* re-authentication, obtains from the honest provider the result it would
\* obtain alone, and after the cycle the held token is the one returned by
\* the last successful authentication.
C12_RaceOwnToken == RaceRule(ExactlyOwn)

\* C12 amended: the retried query carries the token held when the call goes
\* on after its re-authentication, which is the token it stored itself or
\* a newer one stored meanwhile by the re-authentication of a concurrent
\* query; the rest as claimed.
C12_Race == RaceRule(OwnOrNewer)

\* both queries of a cycle re-authenticated on the expired token, one of
\* them retried with the token of the other, and both obtained a state
C12_Witness ==
  /\ \A c \in Children :
       /\ pc[c] = "done"
       /\ Reauths(log[c]) # {}
       /\ result[c] \in PresenceStates
  /\ \E c \in Children : Retried(c) /\ hdr[c] > own[c]
  /\ returned = "dict"


\* ------------------------------------------------------------------- C13
\* What each source of an event says about its kind, read from the event's
\* content alone: a kind, or NONE when the source is missing or names none.
EmbedSays(ev) ==
  IF ev.rec /\ ev.embed = "obj" /\ IsStr(ev.embed_type)
  THEN IF Upper(ev.embed_type) = "CHECK_OUT" THEN "checkout"
       ELSE IF Upper(ev.embed_type) = "CHECK_IN" THEN "checkin"
       ELSE NONE
  ELSE NONE

\* the originator/type fields: the first of them that holds a value
TypeSays(ev) ==
  IF ~ev.rec THEN NONE
  ELSE LET ot == IF ev.originator = "obj" THEN ev.origin_type ELSE NONE
           on == IF ev.originator = "obj" THEN ev.origin_typename ELSE NONE
           t == OrChain(<<ot, on, ev.type, ev.eventType>>)
       IN IF IsStr(t) THEN normalize_type(t) ELSE NONE

TitleSays(ev) == IF ev.rec THEN TitleKind(ev, NONE) ELSE NONE

\* the kind of the first source, in priority order, that yields one
FirstSourceKind(ev) ==
  IF EmbedSays(ev) # NONE THEN EmbedSays(ev)
  ELSE IF TypeSays(ev) # NONE THEN TypeSays(ev)
  ELSE TitleSays(ev)

SingleEvent == Parsed /\ Len(p_events) = 1 /\ p_form.name = "flat"

\* C13: the kind of an event is the one of the first source, in the order
\* embedded type, originator/type fields, title phrases, that yields a
\* kind; a response with that one event resolves to the state of that kind
\* ("At childcare" for a check-in, "Outside childcare" otherwise).
C13_KindPriority ==
  SingleEvent =>
    /\ event_kind(p_events[1]) = FirstSourceKind(p_events[1])
    /\ p_result = StateOfKind(FirstSourceKind(p_events[1]))

\* the same for an event whose fields are read without a fault
C13_KindPriorityReadable ==
  (SingleEvent /\ Readable(p_events[1])) =>
    /\ event_kind(p_events[1]) = FirstSourceKind(p_events[1])
    /\ p_result = StateOfKind(FirstSourceKind(p_events[1]))


\* ------------------------------------------------------------------- C14
\* a step changes the token held by a client only when an authenticate call
\* succeeds in that step, and then to the token that call stored; a held
\* token is never replaced by the empty one
TokenFrame(held, heldNext) ==
  /\ heldNext # held => (last_auth'.ret = "true" /\ heldNext = last_auth'.stored)
  /\ held # NoToken => heldNext # NoToken

\* C14: the held token changes only as the effect of a successful
\* authenticate: a failed authenticate, get_children and every
\* get_child_status path without a successful authentication leave it as it
\* was, and a stored token is never reset to empty, for the polling client
\* and for the client of the config flow.
C14_TokenFrame ==
  [][TokenFrame(access_token, access_token') /\ TokenFrame(flow_token, flow_token')]_vars

\* a re-authentication has just failed after a 401 and the token that was
\* held is still held
C14_Witness ==
  /\ access_token # NoToken
  /\ last_auth.ret \in {"false", RAISE}
  /\ \E c \in Children :
       /\ pc[c] = "done"
       /\ result[c] = NoResult
       /\ Reauths(log[c]) # {}
       /\ hdr[c] = access_token


\* ------------------------------------------------------------------- C15
\* the orders in which a list of n events can stand
PermsOf(n) == {f \in [1..n -> 1..n] : \A i, j \in 1..n : i # j => f[i] # f[j]}
AllPerms == [n \in 0..MaxEvents |-> PermsOf(n)]
Perms(n) == AllPerms[n]
Permuted(evs, f) == [i \in 1..Len(evs) |-> evs[f[i]]]

\* the timestamps of the kind-determinable events that carry one are
\* pairwise distinct
DistinctTimes(evs) ==
  \A i, j \in TimedIdx(evs) :
    i # j => event_timestamp(evs[i]) # event_timestamp(evs[j])

\* what get_child_status returns on a 200 answer carrying the list evs
ResultOf(evs) == StatusFromReply(CalReply("ok", 200, "json", Package(evs, Form("flat", 0))))

\* C15: when at least one kind-determinable event carries a timestamp and
\* the timestamps of the kind-determinable events are pairwise distinct,
\* every order of the event list gives the result the response gave.
C15_OrderIrrelevant ==
  (/\ Parsed /\ p_form.name = "flat"
   /\ TimedIdx(p_events) # {}
   /\ DistinctTimes(p_events))
    => \A f \in Perms(Len(p_events)) : ResultOf(Permuted(p_events, f)) = p_result

\* three events with distinct timestamps, the latest standing first and the
\* last one of the other kind, resolved to the state of the first
C15_Witness ==
  /\ Parsed /\ p_form.name = "flat"
  /\ Len(p_events) = 3
  /\ TimedIdx(p_events) = {1, 2, 3}
  /\ DistinctTimes(p_events)
  /\ \A i \in {2, 3} :
       /\ event_timestamp(p_events[i]).aware = event_timestamp(p_events[1]).aware
       /\ event_timestamp(p_events[i]).t < event_timestamp(p_events[1]).t
  /\ event_kind(p_events[3]) # event_kind(p_events[1])
  /\ p_result = StateOfKind(event_kind(p_events[1]))


\* ------------------------------------------------------------- entities
\* The entities of a child read the aggregate of their coordinator (data)
\* and its last_update_success flag.  The sensor platform and the binary
\* sensor platform each run a coordinator of their own over the same update
\* method; one coordinator stands for either.

\* "a or b" on a value of the aggregate: None is falsy, a state is not
PyOr(v, default) == IF v = NoResult THEN default ELSE v

\* "child_id in coordinator.data": the aggregate has an entry for the child
KeyIn(d, c) == d[c] # NONE

\* a status sensor that shows the value of the aggregate as it is
SensorStateRaw(c) == data[c]

\* sensor.py 80-83, ChildcareStatusSensor.state
SensorState(c) == PyOr(data[c], STATE_OUTSIDE_CHILDCARE)

\* sensor.py 85-88, ChildcareStatusSensor.available
SensorAvailable(c) == last_update_success /\ KeyIn(data, c)

\* sensor.py 100-109, extra_state_attributes["childcare_present"]
ChildcarePresent(c) == SensorState(c) = STATE_AT_CHILDCARE

\* sensor.py 90-98, ChildcareStatusSensor.icon
SensorIcon(c) ==
  IF SensorState(c) = STATE_AT_CHILDCARE THEN "mdi:school" ELSE "mdi:school-outline"

\* binary_sensor.py 87-91, ChildcarePresenceBinarySensor.is_on
is_on(c) == data[c] = STATE_AT_CHILDCARE

\* binary_sensor.py 93-95, ChildcarePresenceBinarySensor.available
BinaryAvailable(c) == last_update_success /\ KeyIn(data, c)

\* ------------------------------------------------------------------- C16
\* C16: after a cycle whose aggregate holds no value for a child, the status
\* sensor of the child shows "Outside childcare" and its presence binary
\* sensor is off, while both entities report themselves available; and for
\* every aggregate read, the binary flag and the childcare_present
\* attribute are true exactly when the value is "At childcare".
C16_NoResultShownAbsent ==
  \A c \in Children :
    /\ (returned = "dict" /\ data[c] = NoResult) =>
         /\ SensorState(c) = STATE_OUTSIDE_CHILDCARE
         /\ ~is_on(c)
         /\ SensorAvailable(c)
         /\ BinaryAvailable(c)
    /\ KeyIn(data, c) =>
         /\ SensorState(c) \in PresenceStates
         /\ is_on(c) = (data[c] = STATE_AT_CHILDCARE)
         /\ ChildcarePresent(c) = (data[c] = STATE_AT_CHILDCARE)
         /\ ChildcarePresent(c) = is_on(c)

\* a cycle has delivered an aggregate with no value for one child and "At
\* childcare" for the other
C16_Witness ==
  /\ returned = "dict"
  /\ \E c, o \in Children :
       /\ data[c] = NoResult
       /\ SensorState(c) = STATE_OUTSIDE_CHILDCARE
       /\ SensorAvailable(c)
       /\ data[o] = STATE_AT_CHILDCARE
       /\ is_on(o)

====
